---- MODULE Spec2Model ----
(***************************************************************************)
(* Model of the binary trie of vadixidav/bintree (src/src/lib.rs and       *)
(* src/src/heuristic.rs): the tagged slot encoding, BinTrie::insert with   *)
(* its leaf/leaf split and depth-ceiling overwrite, BinTrie::get, the      *)
(* explicit-stack iterator behind items() and the heuristic-guided         *)
(* iterator behind explore().                                              *)
(*                                                                         *)
(* The 32-bit slot word is scaled to a 3-bit word: HIGH is the top bit of  *)
(* the scaled word, payloads and node indices use the bits below it.       *)
(***************************************************************************)
EXTENDS Integers, Sequences, FiniteSets, TLC

\* ---------------------------------------------------------------- bounds
\* Largest depth a trie is constructed with (new_depth(d), d in 1..MaxDepth).
MaxDepth == 3

\* ------------------------------------------------------- slot encoding
\* const HIGH: u32 = 0x8000_0000, scaled to the top bit of a 3-bit word.
HIGH == 4
\* The values of the scaled machine word (u32 in the source).
Word == 0 .. (2 * HIGH - 1)
\* The payloads the insert contract allows: high bit clear.
Payloads == 0 .. (HIGH - 1)

\* The items insert is called with: the smallest payloads, the largest one,
\* and the largest word, which has the high bit set.
Items == {0, 1, HIGH - 1, 2 * HIGH - 1}

\* m & HIGH != 0
HasHigh(m) == (m \div HIGH) % 2 = 1
\* m | HIGH
SetHigh(m) == IF HasHigh(m) THEN m ELSE m + HIGH
\* m & !HIGH
ClearHigh(m) == IF HasHigh(m) THEN m - HIGH ELSE m

\* Option<u32>
None == <<>>
Some(x) == <<x>>

\* Internal::default(): both children empty.  A node is the pair of its
\* children, child `false` first.
DefaultInternal == <<0, 0>>
\* if b { 1 } else { 0 }, as an index into the pair.
Position(b) == IF b THEN 2 ELSE 1

\* A key callback K(n), tabulated on the positions 0..d-1 a trie of depth d
\* asks for: bit n is k[n+1].
Keys(d) == [1 .. d -> BOOLEAN]
KeyBit(k, n) == k[n + 1]
\* The caller has no key on record for a payload.
NoKey == <<>>

VARIABLES
    internals,  \* BinTrie::internals, node index n at internals[n+1]
    depth,      \* BinTrie::depth
    pc,         \* "idle" (ready for a call), the place insert has reached,
                \* "done" (a call has returned), or "aborted" (panic)
    item,       \* the argument `item` of the running or last call, or 0
    key,        \* the argument `key` of the running or last call, or ZeroKey
    index,      \* insert's local `index`
    i,          \* insert's loop variable
    ret,        \* the value the last finished insert / get returned, or None
    op,         \* the running or returned call: "insert", "get", "items",
                \* "explore", or "none"
    owner,      \* the caller's record: key -> the payload last inserted
                \* with it (Some), or None
    iter,       \* the live Iter of items(), or NoIter
    xiter,      \* the live ExploreIter of explore(), or NoIter
    atCall,     \* the node list as it was when the running or returned
                \* insert was called, or NoCall
    distinct    \* every insert so far used a key no stored payload had

vars == <<internals, depth, pc, item, key, index, i, ret, op, owner, iter,
          xiter, atCall, distinct>>

\* No insert is running or has just returned.
NoCall == <<>>

\* No iterator borrows the trie.
NoIter == <<>>

\* self.internals.get_unchecked(n)
NodeAt(n) == internals[n + 1]

\* The key the caller has on record for payload m, or NoKey.
keyOf(m) ==
    IF \E k \in Keys(depth) : owner[k] = Some(m)
    THEN CHOOSE k \in Keys(depth) : owner[k] = Some(m)
    ELSE NoKey

\* The caller's lookup callback F(m, n): the nth bit of the key payload m
\* was inserted with.
lookup(m, n) == IF keyOf(m) = NoKey THEN FALSE ELSE KeyBit(keyOf(m), n)

\* The key |_| false.
ZeroKey == [n \in 1 .. depth |-> FALSE]

\* BinTrie::new_depth(d): assert!(depth > 0), one default node.
Init ==
    /\ depth \in 1 .. MaxDepth
    /\ internals = <<DefaultInternal>>
    /\ pc = "idle"
    /\ item = 0
    /\ key = ZeroKey
    /\ index = 0
    /\ i = 0
    /\ ret = None
    /\ op = "none"
    /\ owner = [k \in Keys(depth) |-> None]
    /\ iter = NoIter
    /\ xiter = NoIter
    /\ atCall = NoCall
    /\ distinct = TRUE

\* The caller's bookkeeping when insert(item, key, lookup) returns: item is
\* now the payload of that key.
Recorded == [owner EXCEPT ![key] = Some(item)]

\* Variant of InsertCall without the assert on the high bit.
InsertCallUnchecked(it, k) ==
    /\ pc = "idle"
    /\ iter = NoIter
    /\ xiter = NoIter
    /\ keyOf(it) \in {NoKey, k}
    /\ item' = it
    /\ key' = k
    /\ index' = 0
    /\ i' = 0
    /\ op' = "insert"
    /\ ret' = None
    /\ pc' = IF 0 < depth - 1 THEN "loop" ELSE "last"
    /\ atCall' = internals
    /\ distinct' = (distinct /\ (HasHigh(it) \/ owner[k] = None))
    /\ UNCHANGED <<internals, depth, owner, iter, xiter>>

\* insert entry: assert!(item & HIGH == 0); let mut index = 0.
\* The caller keeps the contract on lookup: a payload that is stored is
\* inserted again only under the key it is stored with.
InsertCall(it, k) ==
    /\ pc = "idle"
    /\ iter = NoIter
    /\ xiter = NoIter
    /\ keyOf(it) \in {NoKey, k}
    /\ item' = it
    /\ key' = k
    /\ index' = 0
    /\ i' = 0
    /\ op' = "insert"
    /\ ret' = None
    /\ pc' = IF HasHigh(it) THEN "aborted"
             ELSE IF 0 < depth - 1 THEN "loop" ELSE "last"
    /\ atCall' = internals
    /\ distinct' = (distinct /\ (HasHigh(it) \/ owner[k] = None))
    /\ UNCHANGED <<internals, depth, owner, iter, xiter>>

\* The slot value of node n at position pos replaced by v.
WriteSlot(n, pos, v) == [internals EXCEPT ![n + 1][pos] = v]

\* Variant of AfterIteration for a loop that ends one level early.
AfterIterationEarly == IF i + 1 < depth - 2 THEN "loop" ELSE "last"

\* for i in 0..self.depth - 1: advance to the next iteration or leave.
AfterIteration == IF i + 1 < depth - 1 THEN "loop" ELSE "last"

\* insert returns: its locals are gone.
Return ==
    /\ pc' = "done"
    /\ index' = 0
    /\ i' = 0

\* Variant of InsertEmpty that makes a node for every level of the key: on
\* an empty slot above the last level it pushes an empty node, refers to it
\* and goes on in it.
InsertEmptyEager ==
    /\ pc = "loop"
    /\ LET position == Position(KeyBit(key, i))
           new_index == Len(internals)
       IN /\ NodeAt(index)[position] = 0
          /\ IF HasHigh(new_index)
             THEN /\ pc' = "aborted"
                  /\ UNCHANGED <<internals, index, i>>
             ELSE /\ internals' =
                        Append(WriteSlot(index, position, new_index),
                               DefaultInternal)
                  /\ index' = new_index
                  /\ i' = i + 1
                  /\ pc' = AfterIteration
    /\ UNCHANGED <<depth, item, key, ret, op, owner, iter, xiter>>
    /\ UNCHANGED <<atCall, distinct>>

\* Loop body, slot empty: store the leaf and return None.
InsertEmpty ==
    /\ pc = "loop"
    /\ LET position == Position(KeyBit(key, i))
       IN /\ NodeAt(index)[position] = 0
          /\ internals' = WriteSlot(index, position, SetHigh(item))
    /\ ret' = None
    /\ owner' = Recorded
    /\ Return
    /\ UNCHANGED <<depth, item, key, op, iter, xiter>>
    /\ UNCHANGED <<atCall, distinct>>

\* Variant of InsertPush that asks lookup for bit i instead of bit i + 1.
InsertPushSameLevel ==
    /\ pc = "loop"
    /\ LET position == Position(KeyBit(key, i))
           m == NodeAt(index)[position]
           new_internal ==
               [DefaultInternal EXCEPT
                   ![Position(lookup(ClearHigh(m), i))] = m]
           new_index == Len(internals)
       IN /\ m # 0
          /\ HasHigh(m)
          /\ IF HasHigh(new_index)
             THEN /\ pc' = "aborted"
                  /\ UNCHANGED internals
             ELSE /\ pc' = "link"
                  /\ internals' = Append(internals, new_internal)
    /\ UNCHANGED <<depth, item, key, index, i, ret, op, owner, iter,
                   xiter>>
    /\ UNCHANGED <<atCall, distinct>>

\* Variant of InsertPush that pushes the new node without the old leaf.
InsertPushLose ==
    /\ pc = "loop"
    /\ LET position == Position(KeyBit(key, i))
           m == NodeAt(index)[position]
           new_index == Len(internals)
       IN /\ m # 0
          /\ HasHigh(m)
          /\ IF HasHigh(new_index)
             THEN /\ pc' = "aborted"
                  /\ UNCHANGED internals
             ELSE /\ pc' = "link"
                  /\ internals' = Append(internals, DefaultInternal)
    /\ UNCHANGED <<depth, item, key, index, i, ret, op, owner, iter,
                   xiter>>
    /\ UNCHANGED <<atCall, distinct>>

\* Variant of InsertPush that applies the policy of the last level at every
\* level: the new payload takes the slot of the leaf found there.
InsertPushOverwrite ==
    /\ pc = "loop"
    /\ LET position == Position(KeyBit(key, i))
           m == NodeAt(index)[position]
       IN /\ m # 0
          /\ HasHigh(m)
          /\ internals' = WriteSlot(index, position, SetHigh(item))
          /\ ret' = Some(ClearHigh(m))
    /\ owner' = Recorded
    /\ Return
    /\ UNCHANGED <<depth, item, key, op, iter, xiter>>
    /\ UNCHANGED <<atCall, distinct>>

\* Variant of InsertPush that pushes the node first and checks the index
\* afterwards.
InsertPushLateAssert ==
    /\ pc = "loop"
    /\ LET position == Position(KeyBit(key, i))
           m == NodeAt(index)[position]
           new_internal ==
               [DefaultInternal EXCEPT
                   ![Position(lookup(ClearHigh(m), i + 1))] = m]
           new_index == Len(internals)
       IN /\ m # 0
          /\ HasHigh(m)
          /\ internals' = Append(internals, new_internal)
          /\ pc' = IF HasHigh(new_index) THEN "aborted" ELSE "link"
    /\ UNCHANGED <<depth, item, key, index, i, ret, op, owner, iter,
                   xiter>>
    /\ UNCHANGED <<atCall, distinct>>

\* Loop body, slot holds leaf m: build the new node with m at
\* lookup(m & !HIGH, i + 1), assert the new index fits, push the node.
InsertPush ==
    /\ pc = "loop"
    /\ LET position == Position(KeyBit(key, i))
           m == NodeAt(index)[position]
           new_internal ==
               [DefaultInternal EXCEPT
                   ![Position(lookup(ClearHigh(m), i + 1))] = m]
           new_index == Len(internals)
       IN /\ m # 0
          /\ HasHigh(m)
          /\ IF HasHigh(new_index)
             THEN /\ pc' = "aborted"
                  /\ UNCHANGED internals
             ELSE /\ pc' = "link"
                  /\ internals' = Append(internals, new_internal)
    /\ UNCHANGED <<depth, item, key, index, i, ret, op, owner, iter,
                   xiter>>
    /\ UNCHANGED <<atCall, distinct>>

\* Variant of InsertLink that takes the node list's length after the push
\* as the new node's index.
InsertLinkNext ==
    /\ pc = "link"
    /\ LET position == Position(KeyBit(key, i))
           new_index == Len(internals)
       IN /\ internals' = WriteSlot(index, position, new_index)
          /\ index' = new_index
    /\ i' = i + 1
    /\ pc' = AfterIteration
    /\ UNCHANGED <<depth, item, key, ret, op, owner, iter, xiter>>
    /\ UNCHANGED <<atCall, distinct>>

\* Variant of InsertLink that writes the new index into the root's slot
\* instead of the slot of the node the split happened in.
InsertLinkRoot ==
    /\ pc = "link"
    /\ LET position == Position(KeyBit(key, i))
           new_index == Len(internals) - 1
       IN /\ internals' = WriteSlot(0, position, new_index)
          /\ index' = new_index
    /\ i' = i + 1
    /\ pc' = AfterIteration
    /\ UNCHANGED <<depth, item, key, ret, op, owner, iter, xiter>>
    /\ UNCHANGED <<atCall, distinct>>

\* Loop body, after the push: write the new index into the parent slot and
\* continue in the new node.
InsertLink ==
    /\ pc = "link"
    /\ LET position == Position(KeyBit(key, i))
           new_index == Len(internals) - 1
       IN /\ internals' = WriteSlot(index, position, new_index)
          /\ index' = new_index
    /\ i' = i + 1
    /\ pc' = AfterIteration
    /\ UNCHANGED <<depth, item, key, ret, op, owner, iter, xiter>>
    /\ UNCHANGED <<atCall, distinct>>

\* Loop body, slot holds an internal reference: move to that node.
InsertDescend ==
    /\ pc = "loop"
    /\ LET position == Position(KeyBit(key, i))
           m == NodeAt(index)[position]
       IN /\ m # 0
          /\ ~HasHigh(m)
          /\ index' = m
    /\ i' = i + 1
    /\ pc' = AfterIteration
    /\ UNCHANGED <<internals, depth, item, key, ret, op, owner, iter,
                   xiter>>
    /\ UNCHANGED <<atCall, distinct>>

\* Variant of InsertLast with the policy of dropping the insert when the
\* spot is occupied.
InsertLastKeep ==
    /\ pc = "last"
    /\ LET position == Position(KeyBit(key, depth - 1))
           old == NodeAt(index)[position]
       IN /\ internals' = IF old = 0
                          THEN WriteSlot(index, position, SetHigh(item))
                          ELSE internals
          /\ ret' = None
          /\ owner' = Recorded
    /\ Return
    /\ UNCHANGED <<depth, item, key, op, iter, xiter>>
    /\ UNCHANGED <<atCall, distinct>>

\* The last bit: overwrite the spot, return what it held.
InsertLast ==
    /\ pc = "last"
    /\ LET position == Position(KeyBit(key, depth - 1))
           old == NodeAt(index)[position]
           r == IF old # 0 THEN Some(ClearHigh(old)) ELSE None
       IN /\ internals' = WriteSlot(index, position, SetHigh(item))
          /\ ret' = r
          /\ owner' = Recorded
    /\ Return
    /\ UNCHANGED <<depth, item, key, op, iter, xiter>>
    /\ UNCHANGED <<atCall, distinct>>

\* Variant of GetFrom that asks the key for bit 0 at every level.
RECURSIVE GetFromFirstBit(_, _, _)
GetFromFirstBit(n, lvl, k) ==
    IF lvl >= depth THEN None
    ELSE LET m == NodeAt(n)[Position(KeyBit(k, 0))]
         IN IF m = 0 THEN None
            ELSE IF HasHigh(m) THEN Some(ClearHigh(m))
            ELSE GetFromFirstBit(m, lvl + 1, k)

\* BinTrie::get: follow the key from the root for at most depth steps.
RECURSIVE GetFrom(_, _, _)
GetFrom(n, lvl, k) ==
    IF lvl >= depth THEN None
    ELSE LET m == NodeAt(n)[Position(KeyBit(k, lvl))]
         IN IF m = 0 THEN None
            ELSE IF HasHigh(m) THEN Some(ClearHigh(m))
            ELSE GetFrom(m, lvl + 1, k)

get(k) == GetFrom(0, 0, k)

\* A call of get with key k.
Get(k) ==
    /\ pc = "idle"
    /\ iter = NoIter
    /\ xiter = NoIter
    /\ item' = 0
    /\ key' = k
    /\ ret' = get(k)
    /\ op' = "get"
    /\ pc' = "done"
    /\ UNCHANGED <<internals, depth, index, i, owner, iter, xiter>>
    /\ UNCHANGED <<atCall, distinct>>

\* The caller takes the value a call returned and is ready for its next
\* call.
Take ==
    /\ pc = "done"
    /\ pc' = "idle"
    /\ op' = "none"
    /\ item' = 0
    /\ key' = ZeroKey
    /\ ret' = None
    /\ atCall' = NoCall
    /\ UNCHANGED <<internals, depth, index, i, owner, iter, xiter, distinct>>

\* ------------------------------------------------------- items(): Iter
\* slice::Iter over a node's two children: the node and how many of its
\* children have been taken.
Frame(n, c) == <<n, c>>

\* Iter::new: one frame, the root's children.
IterNew == <<Frame(0, 0)>>

\* Variant of IterNext that does not push the current slice back before it
\* enters a child node.
RECURSIVE IterNextLost(_)
IterNextLost(indices) ==
    IF indices = <<>> THEN [indices |-> <<>>, value |-> None]
    ELSE LET current == indices[Len(indices)]
             rest == SubSeq(indices, 1, Len(indices) - 1)
         IN IF current[2] >= 2 THEN IterNextLost(rest)
            ELSE LET n == NodeAt(current[1])[current[2] + 1]
                     back == Append(rest, Frame(current[1], current[2] + 1))
                 IN IF n = 0 THEN IterNextLost(back)
                    ELSE IF HasHigh(n)
                    THEN [indices |-> back, value |-> Some(ClearHigh(n))]
                    ELSE IterNextLost(Append(rest, Frame(n, 0)))

\* Iter::next, the loop run to its return: the frame stack left behind and
\* the value returned.
RECURSIVE IterNext(_)
\* Variant of IterNext that reads the slots of a node from the last to the
\* first.
RECURSIVE IterNextReversed(_)
IterNextReversed(indices) ==
    IF indices = <<>> THEN [indices |-> <<>>, value |-> None]
    ELSE LET current == indices[Len(indices)]
             rest == SubSeq(indices, 1, Len(indices) - 1)
         IN IF current[2] >= 2 THEN IterNextReversed(rest)
            ELSE LET n == NodeAt(current[1])[2 - current[2]]
                     back == Append(rest, Frame(current[1], current[2] + 1))
                 IN IF n = 0 THEN IterNextReversed(back)
                    ELSE IF HasHigh(n)
                    THEN [indices |-> back, value |-> Some(ClearHigh(n))]
                    ELSE IterNextReversed(Append(back, Frame(n, 0)))

\* Variant of IterNext that leaves the cursor of the current frame where it
\* is when it returns a payload.
RECURSIVE IterNextStuck(_)
IterNextStuck(indices) ==
    IF indices = <<>> THEN [indices |-> <<>>, value |-> None]
    ELSE LET current == indices[Len(indices)]
             rest == SubSeq(indices, 1, Len(indices) - 1)
         IN IF current[2] >= 2 THEN IterNextStuck(rest)
            ELSE LET n == NodeAt(current[1])[current[2] + 1]
                     back == Append(rest, Frame(current[1], current[2] + 1))
                 IN IF n = 0 THEN IterNextStuck(back)
                    ELSE IF HasHigh(n)
                    THEN [indices |-> indices, value |-> Some(ClearHigh(n))]
                    ELSE IterNextStuck(Append(back, Frame(n, 0)))

IterNext(indices) ==
    IF indices = <<>> THEN [indices |-> <<>>, value |-> None]
    ELSE LET current == indices[Len(indices)]
             rest == SubSeq(indices, 1, Len(indices) - 1)
         IN IF current[2] >= 2 THEN IterNext(rest)
            ELSE LET n == NodeAt(current[1])[current[2] + 1]
                     back == Append(rest, Frame(current[1], current[2] + 1))
                 IN IF n = 0 THEN IterNext(back)
                    ELSE IF HasHigh(n)
                    THEN [indices |-> back, value |-> Some(ClearHigh(n))]
                    ELSE IterNext(Append(back, Frame(n, 0)))

\* A call of items(): the iterator borrows the trie.
ItemsNew ==
    /\ pc = "idle"
    /\ iter = NoIter
    /\ xiter = NoIter
    /\ iter' = [indices |-> IterNew, yielded |-> <<>>, value |-> None,
                pulls |-> 0]
    /\ op' = "items"
    /\ UNCHANGED <<internals, depth, pc, item, key, index, i, ret, owner,
                   xiter>>
    /\ UNCHANGED <<atCall, distinct>>

\* One pull of the items() iterator.  A pull after the end returns None
\* again and is not counted.
ItemsNext ==
    /\ iter # NoIter
    /\ LET r == IterNext(iter.indices)
       IN iter' = [indices |-> r.indices,
                   yielded |-> IF r.value = None THEN iter.yielded
                               ELSE Append(iter.yielded, r.value[1]),
                   value |-> r.value,
                   pulls |-> IF iter.pulls > 0 /\ iter.value = None
                             THEN iter.pulls ELSE iter.pulls + 1]
    /\ UNCHANGED <<internals, depth, pc, item, key, index, i, ret, op, owner,
                   xiter>>
    /\ UNCHANGED <<atCall, distinct>>

\* ------------------------------------------------------------ heuristics
\* A closure F: FnMut(bool) -> bool + Clone.  Its captured state is the
\* list of arguments it has been called with; what it answers to a call is
\* read from its table at the number of that call (the last row serves
\* every later call).  A one-row table is a stateless predicate.
BoolFns == [BOOLEAN -> BOOLEAN]
AcceptNone == [b \in BOOLEAN |-> FALSE]
AcceptAll == [b \in BOOLEAN |-> TRUE]
OnlyTrue == [b \in BOOLEAN |-> b]
OnlyFalse == [b \in BOOLEAN |-> ~b]
Stateless == {<<f>> : f \in BoolFns}
\* Closures that count their calls, as `level += 1; match level {...}`.
Counting ==
    {<<f, g, AcceptNone>> : f \in {OnlyFalse, OnlyTrue, AcceptAll},
                            g \in {OnlyFalse, OnlyTrue}}

Closure(tab) == [tab |-> tab, calls |-> <<>>]

\* One call f(arg) of a closure: the answer and the closure afterwards.
Call(f, arg) ==
    LET c == Len(f.calls) + 1
        row == IF c <= Len(f.tab) THEN c ELSE Len(f.tab)
    IN [out |-> f.tab[row][arg], f |-> [f EXCEPT !.calls = Append(@, arg)]]

\* FilterHeuristic(f) and SearchHeuristic(f, first).
FilterHeuristic(f) == [kind |-> "filter", f |-> f, first |-> FALSE]
SearchHeuristic(f, first) == [kind |-> "search", f |-> f, first |-> first]

\* Variant of Enter in which the search heuristic keeps its first choice.
EnterKeepFirst(h, side) ==
    LET r == Call(h.f, side)
    IN [h EXCEPT !.f = r.f]

\* Heuristic::enter(side).
\*   Filter: self.0(side);           Search: self.1 = self.0(side).
Enter(h, side) ==
    LET r == Call(h.f, side)
    IN IF h.kind = "filter" THEN [h EXCEPT !.f = r.f]
       ELSE [h EXCEPT !.f = r.f, !.first = r.out]

\* Variant of HeuristicIter in which the filter offers true before false.
HeuristicIterReversed(h) ==
    IF h.kind = "filter"
    THEN [kind |-> "filter", f |-> h.f, order |-> <<TRUE, FALSE>>, pos |-> 0]
    ELSE [kind |-> "search", f |-> h.f,
          order |-> IF h.first THEN <<TRUE, FALSE>> ELSE <<FALSE, TRUE>>,
          pos |-> 0]

\* Heuristic::iter().
\*   Filter: FilterHeuristicIter { f: self.0.clone(), iter: [false, true] }
\*   Search: [true, false] if self.1, else [false, true].
HeuristicIter(h) ==
    IF h.kind = "filter"
    THEN [kind |-> "filter", f |-> h.f, order |-> <<FALSE, TRUE>>, pos |-> 0]
    ELSE [kind |-> "search", f |-> h.f,
          order |-> IF h.first THEN <<TRUE, FALSE>> ELSE <<FALSE, TRUE>>,
          pos |-> 0]

\* Variant of ChoiceNext in which the filter does not ask its predicate.
ChoiceNextUnfiltered(hi) ==
    IF hi.pos >= 2 THEN [choice |-> None, iter |-> hi]
    ELSE [choice |-> Some(hi.order[hi.pos + 1]),
          iter |-> [hi EXCEPT !.pos = @ + 1]]

\* Variant of ChoiceNext in which the filter calls its own predicate, not a
\* clone of it.
RECURSIVE ChoiceNextNoClone(_)
ChoiceNextNoClone(hi) ==
    IF hi.pos >= 2 THEN [choice |-> None, iter |-> hi]
    ELSE LET n == hi.order[hi.pos + 1]
             r == Call(hi.f, n)
             adv == IF hi.kind = "filter"
                    THEN [hi EXCEPT !.pos = @ + 1, !.f = r.f]
                    ELSE [hi EXCEPT !.pos = @ + 1]
         IN IF hi.kind = "filter" /\ ~r.out
            THEN ChoiceNextNoClone(adv)
            ELSE [choice |-> Some(n), iter |-> adv]

\* <H::Iter as Iterator>::next: the choice returned and the iterator left.
\*   Filter: find(|n| (f.clone())(n)) over the rest of [false, true]; the
\*           predicate runs on a clone, self.f is not changed.
\*   Search: the next element of the slice.
RECURSIVE ChoiceNext(_)
ChoiceNext(hi) ==
    IF hi.pos >= 2 THEN [choice |-> None, iter |-> hi]
    ELSE LET n == hi.order[hi.pos + 1]
             adv == [hi EXCEPT !.pos = @ + 1]
         IN IF hi.kind = "filter" /\ ~Call(hi.f, n).out
            THEN ChoiceNext(adv)
            ELSE [choice |-> Some(n), iter |-> adv]

\* --------------------------------------------------- explore(): ExploreIter
\* A frame (array, heuristic, iter); the array is named by its node index.
XFrame(n, h, hi) == [node |-> n, heuristic |-> h, iter |-> hi]

\* ExploreIter::new.
ExploreIterNew(h) == <<XFrame(0, h, HeuristicIter(h))>>

\* Variant of ExploreIterNext that enters the child with the frame's own
\* heuristic instead of a clone of it.
RECURSIVE ExploreIterNextShared(_)
ExploreIterNextShared(indices) ==
    IF indices = <<>> THEN [indices |-> <<>>, value |-> None]
    ELSE LET top == indices[Len(indices)]
             rest == SubSeq(indices, 1, Len(indices) - 1)
             c == ChoiceNext(top.iter)
         IN IF c.choice = None THEN ExploreIterNextShared(rest)
            ELSE LET choice == c.choice[1]
                     n == NodeAt(top.node)[Position(choice)]
                     back == Append(rest,
                                    XFrame(top.node, top.heuristic, c.iter))
                 IN IF n = 0 THEN ExploreIterNextShared(back)
                    ELSE IF HasHigh(n)
                    THEN [indices |-> back, value |-> Some(ClearHigh(n))]
                    ELSE LET entered == Enter(top.heuristic, choice)
                         IN ExploreIterNextShared(
                                Append(Append(rest,
                                              XFrame(top.node, entered,
                                                     c.iter)),
                                       XFrame(n, entered,
                                              HeuristicIter(entered))))

\* ExploreIter::next, the loop run to its return.
RECURSIVE ExploreIterNext(_)
ExploreIterNext(indices) ==
    IF indices = <<>> THEN [indices |-> <<>>, value |-> None]
    ELSE LET top == indices[Len(indices)]
             rest == SubSeq(indices, 1, Len(indices) - 1)
             next_heuristic == top.heuristic
             c == ChoiceNext(top.iter)
         IN IF c.choice = None THEN ExploreIterNext(rest)
            ELSE LET choice == c.choice[1]
                     n == NodeAt(top.node)[Position(choice)]
                     back == Append(rest,
                                    XFrame(top.node, top.heuristic, c.iter))
                 IN IF n = 0 THEN ExploreIterNext(back)
                    ELSE IF HasHigh(n)
                    THEN [indices |-> back, value |-> Some(ClearHigh(n))]
                    ELSE LET entered == Enter(next_heuristic, choice)
                         IN ExploreIterNext(
                                Append(back,
                                       XFrame(n, entered,
                                              HeuristicIter(entered))))

\* The heuristics explore() is called with.
Heuristics ==
    {FilterHeuristic(Closure(t)) : t \in Stateless \cup Counting}
    \cup {SearchHeuristic(Closure(t), b) : t \in Stateless, b \in BOOLEAN}

\* A call of explore(h).
ExploreNew(h) ==
    /\ pc = "idle"
    /\ iter = NoIter
    /\ xiter = NoIter
    /\ xiter' = [indices |-> ExploreIterNew(h), yielded |-> <<>>,
                 value |-> None, pulls |-> 0, heuristic |-> h]
    /\ op' = "explore"
    /\ UNCHANGED <<internals, depth, pc, item, key, index, i, ret, owner,
                   iter>>
    /\ UNCHANGED <<atCall, distinct>>

\* One pull of the explore() iterator.
ExploreNext ==
    /\ xiter # NoIter
    /\ LET r == ExploreIterNext(xiter.indices)
       IN xiter' = [xiter EXCEPT
                       !.indices = r.indices,
                       !.yielded = IF r.value = None THEN @
                                   ELSE Append(@, r.value[1]),
                       !.value = r.value,
                       !.pulls = IF @ > 0 /\ xiter.value = None
                                 THEN @ ELSE @ + 1]
    /\ UNCHANGED <<internals, depth, pc, item, key, index, i, ret, op, owner,
                   iter>>
    /\ UNCHANGED <<atCall, distinct>>

\* The iterator goes out of scope and the borrow of the trie ends.
DropIter ==
    /\ iter # NoIter \/ xiter # NoIter
    /\ iter' = NoIter
    /\ xiter' = NoIter
    /\ op' = "none"
    /\ UNCHANGED <<internals, depth, pc, item, key, index, i, ret, owner>>
    /\ UNCHANGED <<atCall, distinct>>

Insert ==
    \/ \E it \in Items, k \in Keys(depth) : InsertCall(it, k)
    \/ InsertEmpty
    \/ InsertPush
    \/ InsertLink
    \/ InsertDescend
    \/ InsertLast

Next ==
    \/ Insert
    \/ \E k \in Keys(depth) : Get(k)
    \/ Take
    \/ ItemsNew
    \/ ItemsNext
    \/ \E h \in Heuristics : ExploreNew(h)
    \/ ExploreNext
    \/ DropIter

Spec == Init /\ [][Next]_vars

\* ================================================================ claims
\* What the trie holds, read off the node list without the code of get or
\* of the iterators: the leaf slots that can be reached from the root, each
\* with the choices that lead to it (its own position included).
RECURSIVE LeavesFrom(_, _)
LeavesFrom(n, path) ==
    UNION {LET m == NodeAt(n)[Position(b)]
               here == Append(path, b)
           IN IF m = 0 THEN {}
              ELSE IF HasHigh(m) THEN {[p |-> ClearHigh(m), path |-> here]}
              ELSE IF Len(here) >= depth \/ m >= Len(internals) THEN {}
              ELSE LeavesFrom(m, here) : b \in BOOLEAN}

Leaves == LeavesFrom(0, <<>>)

\* The payloads the caller has on record, and how often each is on record.
Resident == {p \in Payloads : keyOf(p) # NoKey}
ResidentBag ==
    [p \in Resident |-> Cardinality({k \in Keys(depth) : owner[k] = Some(p)})]
\* How often each payload sits in a reachable leaf slot.
LeafBag ==
    [p \in {l.p : l \in Leaves} |-> Cardinality({l \in Leaves : l.p = p})]
\* How often each value occurs in a sequence.
BagOfSeq(s) ==
    [x \in {s[j] : j \in DOMAIN s} |->
        Cardinality({j \in DOMAIN s : s[j] = x})]
Range(s) == {s[j] : j \in DOMAIN s}
IsPrefix(s, t) == Len(s) <= Len(t) /\ \A j \in 1 .. Len(s) : s[j] = t[j]

\* An iterator that has returned None.
Exhausted(it) == it # NoIter /\ it.pulls > 0 /\ it.value = None

\* The whole sequence items() yields on the current trie.
RECURSIVE Collect(_, _)
Collect(indices, fuel) ==
    LET r == IterNext(indices)
    IN IF r.value = None \/ fuel = 0 THEN <<>>
       ELSE <<r.value[1]>> \o Collect(r.indices, fuel - 1)
ItemsAll == Collect(IterNew, 2 * Len(internals))

\* The step on which a running insert returns.
InsertReturns == pc \in {"loop", "last"} /\ pc' = "done"

\* C1: round trip.  Whenever the trie is at rest, get with a key returns
\* the payload last inserted with that key: right after insert(p, k) this is
\* Some(p), and it stays Some(p) while the later inserts use other keys.
C1_RoundTrip ==
    pc \in {"idle", "done"} =>
        /\ (pc = "done" /\ op = "insert") => get(key) = Some(item)
        /\ \A k \in Keys(depth) : owner[k] # None => get(k) = owner[k]

\* C1 witness: an insert has just returned after a split, and payloads of
\* two different keys are stored.
C1_Witness ==
    /\ pc = "done"
    /\ op = "insert"
    /\ Len(internals) >= 2
    /\ \E k1, k2 \in Keys(depth) :
           k1 # k2 /\ owner[k1] # None /\ owner[k2] # None

\* C2: depth-ceiling overwrite.  An insert of b under a key that payload a
\* is stored with returns Some(a); then get with the key returns Some(b),
\* items() yields b and, unless a = b, no longer yields a.
C2_CeilingOverwrite ==
    /\ [][(InsertReturns /\ owner[key] # None) =>
             /\ ret' = owner[key]
             /\ get(key)' = Some(item)
         ]_vars
    /\ [](pc = "done" /\ op = "insert" /\ ret # None =>
             /\ item \in Range(ItemsAll)
             /\ ret # Some(item) => ret[1] \notin Range(ItemsAll))

\* C2 witness: in a trie of depth at least 2 an insert returned another
\* payload as replaced.
C2_Witness ==
    /\ pc = "done"
    /\ op = "insert"
    /\ depth >= 2
    /\ ret # None
    /\ ret # Some(item)

\* C3: enumeration completeness.  When a traversal by items() has come to
\* its end, the payloads it yielded are, with multiplicity, the payloads
\* inserted and not replaced since.
C3_EnumerationComplete ==
    Exhausted(iter) => BagOfSeq(iter.yielded) = ResidentBag

\* C3 witness: a finished traversal of a trie with a split that yielded at
\* least two payloads.
C3_Witness ==
    /\ Exhausted(iter)
    /\ Len(iter.yielded) >= 2
    /\ Len(internals) >= 2

\* C4 as claimed: get(k) returns Some(p) only if p was inserted with a key
\* equal to k on all positions (and None if no stored payload has key k).
C4_ExactMatch ==
    (pc = "done" /\ op = "get" /\ ret # None) => owner[key] = ret

\* C4 amended: get(k) returns Some(p) only if p is stored and the
\* key p was inserted with agrees with k on the positions 0..L, L the level
\* of the node whose slot holds p; a payload stored under exactly k is
\* returned, so None means that no stored payload has key k.
C4_PrefixMatch ==
    (pc = "done" /\ op = "get") =>
        /\ ret # None =>
               \E l \in Leaves :
                   /\ l.p = ret[1]
                   /\ keyOf(l.p) # NoKey
                   /\ IsPrefix(l.path, key)
                   /\ IsPrefix(l.path, keyOf(l.p))
        /\ owner[key] # None => ret = owner[key]

\* C4 witness: get returned a payload whose key is not the key asked for.
C4_Witness ==
    /\ pc = "done"
    /\ op = "get"
    /\ ret # None
    /\ owner[key] # ret

\* C5: return value and frame of insert.  On return, the value is Some(m)
\* exactly when m was stored under the inserted key (and m is then the only
\* payload that left the trie), None exactly when nothing left the trie;
\* every other stored payload is still stored and still found by get with
\* its own key, and the inserted payload is stored.
C5_InsertFrame ==
    [][InsertReturns =>
          LET before == Resident
              gone == {q \in before : q \notin {l.p : l \in Leaves}'}
          IN /\ ret' = owner[key]
             /\ ret' = None => gone = {}
             /\ ret' # None /\ ret' # Some(item) => gone = {ret'[1]}
             /\ \A q \in gone : ret' = Some(q)
             /\ \A k \in Keys(depth) :
                    (k # key /\ owner[k] # None) =>
                        /\ owner[k][1] \in {l.p : l \in Leaves}'
                        /\ get(k)' = owner[k]
             /\ item \in {l.p : l \in Leaves}'
             /\ LeafBag' = ResidentBag'
      ]_vars

\* C5 witness: an insert replaced a payload while another one stayed.
C5_Witness ==
    /\ pc = "done"
    /\ op = "insert"
    /\ ret # None
    /\ Cardinality(Resident) >= 2

\* The nodes that can be reached from the root, each with the choices that
\* lead to it.
RECURSIVE NodesFrom(_, _)
NodesFrom(n, path) ==
    {[node |-> n, path |-> path]} \cup
    UNION {LET m == NodeAt(n)[Position(b)]
           IN IF m = 0 \/ HasHigh(m) \/ Len(path) + 1 >= depth
                 \/ m >= Len(internals)
              THEN {}
              ELSE NodesFrom(m, Append(path, b)) : b \in BOOLEAN}

PathOf(n) == (CHOOSE x \in NodesFrom(0, <<>>) : x.node = n).path
\* The choices that lead to the leaf slot of a stored payload.
LeafPathOf(p) == (CHOOSE l \in Leaves : l.p = p).path

\* enter(c0), ..., enter(c(d-1)) applied to h in that order.
RECURSIVE EnterAll(_, _)
EnterAll(h, path) ==
    IF path = <<>> THEN h ELSE EnterAll(Enter(h, Head(path)), Tail(path))

\* The answer of a closure's table to its call number c with argument b.
Answer(tab, c, b) == tab[IF c <= Len(tab) THEN c ELSE Len(tab)][b]
\* Every choice on the path is accepted by the call made at its level.
PathAccepted(tab, path) ==
    \A j \in 1 .. Len(path) : Answer(tab, j, path[j])

\* C6: heuristic branch independence.  In every frame of a running
\* explore(h) the heuristic is h with enter applied for the choices on the
\* path from the root to the frame's node, in path order, and nothing else:
\* no sibling explored before and no descent into a child has changed it.
C6_BranchIndependence ==
    xiter # NoIter =>
        \A j \in DOMAIN xiter.indices :
            LET fr == xiter.indices[j]
            IN /\ fr.heuristic = EnterAll(xiter.heuristic, PathOf(fr.node))
               /\ j > 1 =>
                      \E b \in BOOLEAN :
                          NodeAt(xiter.indices[j - 1].node)[Position(b)]
                              = fr.node

\* C6 witness: a traversal is inside the root's `true` subtree after it has
\* yielded from the root's `false` subtree.
C6_Witness ==
    /\ xiter # NoIter
    /\ Len(xiter.indices) >= 2
    /\ xiter.yielded # <<>>
    /\ ~HasHigh(NodeAt(0)[1])
    /\ NodeAt(0)[1] # 0
    /\ xiter.indices[2].node = NodeAt(0)[2]
    /\ xiter.indices[2].heuristic # xiter.heuristic

\* C7: Filter heuristic, stateless predicate f.  A finished explore yields
\* the stored payloads whose path (leaf position included) has only choices
\* f accepts, each once, in the order items() yields them.
C7_FilterStateless ==
    (/\ Exhausted(xiter)
     /\ xiter.heuristic.kind = "filter"
     /\ xiter.heuristic.f.tab \in Stateless) =>
        xiter.yielded =
            SelectSeq(ItemsAll,
                      LAMBDA p : PathAccepted(xiter.heuristic.f.tab,
                                              LeafPathOf(p)))

\* C7 witness: a finished explore with the predicate `only true` that
\* yielded a payload and left others out.
C7_Witness ==
    /\ Exhausted(xiter)
    /\ xiter.heuristic = FilterHeuristic(Closure(<<OnlyTrue>>))
    /\ xiter.yielded # <<>>
    /\ Len(ItemsAll) >= 2
    /\ Len(internals) >= 2

\* C8: Filter heuristic, predicate with state.  The closure a frame uses to
\* judge the candidates of its node has been called exactly with the sides
\* entered on the path to that node, in path order, whatever candidates
\* were judged before; so a finished explore with a call-counting predicate
\* yields the payloads whose choice at level d is accepted by call d+1.
C8_FilterStateful ==
    (xiter # NoIter /\ xiter.heuristic.kind = "filter") =>
        /\ \A j \in DOMAIN xiter.indices :
               LET fr == xiter.indices[j]
               IN /\ fr.iter.f.calls = PathOf(fr.node)
                  /\ fr.heuristic.f.calls = PathOf(fr.node)
        /\ (Exhausted(xiter) /\ xiter.heuristic.f.tab \in Counting) =>
               xiter.yielded =
                   SelectSeq(ItemsAll,
                             LAMBDA p : PathAccepted(xiter.heuristic.f.tab,
                                                     LeafPathOf(p)))

\* C8 witness: the predicate "left, then right, then nothing" has found the
\* payload at false/true among at least three.
C8_Witness ==
    /\ Exhausted(xiter)
    /\ xiter.heuristic =
           FilterHeuristic(Closure(<<OnlyFalse, OnlyTrue, AcceptNone>>))
    /\ Len(xiter.yielded) = 1
    /\ LeafPathOf(xiter.yielded[1]) = <<FALSE, TRUE>>
    /\ Len(ItemsAll) >= 3

\* The order in which a search that prefers side pref at node n reaches the
\* leaves below n, read off the node list.
RECURSIVE SearchWalk(_, _, _, _)
SearchWalk(n, pref, f, lvl) ==
    LET Side(b) ==
            LET m == NodeAt(n)[Position(b)]
            IN IF m = 0 THEN <<>>
               ELSE IF HasHigh(m) THEN <<ClearHigh(m)>>
               ELSE IF lvl + 1 >= depth \/ m >= Len(internals) THEN <<>>
               ELSE SearchWalk(m, f[b], f, lvl + 1)
    IN Side(pref) \o Side(~pref)

\* C9: Search heuristic, stateless f.  A finished explore has yielded every
\* stored payload exactly once; the root's frame tries side `first` first,
\* the frame of a node entered through side s tries f(s) first; with
\* first = false and f always false the sequence is that of items().
C9_SearchOrders ==
    (/\ xiter # NoIter
     /\ xiter.heuristic.kind = "search"
     /\ xiter.heuristic.f.tab \in Stateless) =>
        LET f == xiter.heuristic.f.tab[1]
            first == xiter.heuristic.first
        IN /\ \A j \in DOMAIN xiter.indices :
                  LET fr == xiter.indices[j]
                      pref == IF fr.node = 0 THEN first
                              ELSE f[PathOf(fr.node)[Len(PathOf(fr.node))]]
                  IN fr.iter.order = <<pref, ~pref>>
           /\ Exhausted(xiter) =>
                  /\ BagOfSeq(xiter.yielded) = ResidentBag
                  /\ BagOfSeq(xiter.yielded) = BagOfSeq(ItemsAll)
                  /\ xiter.yielded = SearchWalk(0, first, f, 0)
                  /\ (~first /\ f = AcceptNone) => xiter.yielded = ItemsAll

\* C9 witness: a finished search that started on the `true` side yielded
\* at least two payloads in another order than items().
C9_Witness ==
    /\ Exhausted(xiter)
    /\ xiter.heuristic.kind = "search"
    /\ xiter.heuristic.first
    /\ Len(xiter.yielded) >= 2
    /\ xiter.yielded # ItemsAll
    /\ Len(internals) >= 2

\* C10: reserved-bit violation.  An insert of an item with the high bit set
\* aborts with the node list as it was, and nothing is written afterwards;
\* so every leaf slot of every node holds payload | HIGH of a payload the
\* caller inserted, which has the high bit clear.
C10_ReservedBit ==
    /\ [][(pc = "idle" /\ op' = "insert" /\ HasHigh(item')) =>
             (pc' = "aborted" /\ internals' = internals)]_vars
    /\ [][pc = "aborted" => (pc' = "aborted" /\ internals' = internals)]_vars
    /\ [](LET stored == Resident
          IN \A n \in DOMAIN internals : \A pos \in 1 .. 2 :
                HasHigh(internals[n][pos]) =>
                    /\ ClearHigh(internals[n][pos]) \in stored
                    /\ ~HasHigh(ClearHigh(internals[n][pos])))

\* C10 witness: an insert of an item with the high bit set has aborted on
\* a trie that holds payloads.
C10_Witness ==
    /\ pc = "aborted"
    /\ HasHigh(item)
    /\ Len(internals) >= 2
    /\ Leaves # {}

\* The slots that hold an internal reference, as <<node, position>>.
RefSlots ==
    {s \in (0..(Len(internals) - 1)) \X (1..2) :
        NodeAt(s[1])[s[2]] # 0 /\ ~HasHigh(NodeAt(s[1])[s[2]])}

\* C11: slot index validity.  In every state, the states between the push
\* and the parent write of a split included, every slot holding an internal
\* reference holds an index v with 0 < v < the length of the node list, so
\* the root is never referenced; the node insert works in and every node on
\* an iterator's stack are inside the list too.
C11_SlotIndexValid ==
    /\ \A s \in RefSlots :
          /\ 0 < NodeAt(s[1])[s[2]]
          /\ NodeAt(s[1])[s[2]] < Len(internals)
    /\ index < Len(internals)
    /\ iter # NoIter =>
          \A f \in 1..Len(iter.indices) : iter.indices[f][1] < Len(internals)
    /\ xiter # NoIter =>
          \A f \in 1..Len(xiter.indices) :
             xiter.indices[f].node < Len(internals)

\* Between the push and the parent write of the second split of one insert:
\* the list has a node no slot refers to yet, and references exist.
C11_Witness ==
    /\ pc = "link"
    /\ i = 1
    /\ Len(internals) >= 3
    /\ RefSlots # {}

\* How a slot value may change in one step of a node at the given level.
SlotChangeAllowed(a, b, level) ==
    \/ a = b
    \/ a = 0 /\ HasHigh(b)
    \/ HasHigh(a) /\ b # 0 /\ ~HasHigh(b)
    \/ HasHigh(a) /\ HasHigh(b) /\ level = depth - 1

\* C12: monotone growth.  On every step the node list keeps its nodes; it
\* grows only by one node, and only on the step of an insert that finds a
\* leaf in the slot it wants; a slot changes only from empty to a leaf, from
\* a leaf to an internal reference, or, in a node at level depth - 1, from a
\* leaf to a leaf, so no slot returns to empty and no internal reference
\* changes; only steps of a running insert change the list, so get, items
\* and explore leave it as it is.
C12_MonotoneGrowth ==
    [][/\ Len(internals') >= Len(internals)
       /\ Len(internals') > Len(internals) =>
             /\ Len(internals') = Len(internals) + 1
             /\ pc = "loop"
             /\ HasHigh(NodeAt(index)[Position(KeyBit(key, i))])
       /\ \A n \in 0..(Len(internals) - 1) : \A pos \in 1..2 :
             \/ internals'[n + 1][pos] = internals[n + 1][pos]
             \/ SlotChangeAllowed(internals[n + 1][pos],
                                  internals'[n + 1][pos], Len(PathOf(n)))
       /\ internals' # internals => pc \in {"loop", "link", "last"}
       /\ (pc = "idle" \/ iter' # iter \/ xiter' # xiter) =>
             internals' = internals]_vars

\* An insert has returned that made the node list one node longer and then
\* put its payload in the place of the leaf at the last level.
C12_Witness ==
    /\ pc = "done"
    /\ op = "insert"
    /\ atCall # NoCall
    /\ Len(atCall) >= 2
    /\ Len(internals) = Len(atCall) + 1
    /\ ret # None
    /\ ret # Some(item)

\* The node a split has pushed and not linked yet, if there is one.
Unlinked == IF pc = "link" THEN {Len(internals) - 1} ELSE {}

\* The node list is a tree below the root, and insert works in it at the
\* level of its loop counter.
TreeShape ==
    LET refs == RefSlots
        nodes == NodesFrom(0, <<>>)
        linked == (0..(Len(internals) - 1)) \ Unlinked
    IN /\ \A n \in 0..(Len(internals) - 1) :
             Cardinality({s \in refs : NodeAt(s[1])[s[2]] = n}) =
                 IF n = 0 \/ n \in Unlinked THEN 0 ELSE 1
       /\ {x.node : x \in nodes} = linked
       /\ Cardinality(nodes) = Cardinality(linked)
       /\ \A x \in nodes :
             /\ Len(x.path) <= depth - 1
             /\ Len(x.path) = depth - 1 =>
                   \A pos \in 1..2 : <<x.node, pos>> \notin refs
       /\ pc \in {"loop", "link"} =>
             /\ i < depth - 1
             /\ \E x \in nodes : x.node = index /\ Len(x.path) = i
       /\ pc = "last" =>
             LET old == NodeAt(index)[Position(KeyBit(key, depth - 1))]
             IN /\ \E x \in nodes :
                      x.node = index /\ Len(x.path) = depth - 1
                /\ old = 0 \/ HasHigh(old)
                /\ old # 0 => ClearHigh(old) \in Resident

\* C13: tree shape and safe overwrite at the last level.  The root is
\* referenced by no slot and every other node by exactly one (the node a
\* running split has pushed and not yet linked: by none), so every linked
\* node is reached from the root by one path, of length at most depth - 1;
\* a node at level depth - 1 holds no internal reference.  The node a
\* running insert works in is at the level of its loop counter, and when
\* insert overwrites at the last level the slot holds nothing or a leaf
\* whose payload the caller has inserted.
C13_TreeShape == []TreeShape

\* Insert is about to overwrite a leaf in a node at level 2 that a split of
\* this insert has made.
C13_Witness ==
    /\ pc = "last"
    /\ depth = 3
    /\ index = Len(internals) - 1
    /\ HasHigh(NodeAt(index)[Position(KeyBit(key, depth - 1))])

\* The keys the caller has a payload on record for.
OwnedKeys == {k \in Keys(depth) : owner[k] # None}
\* The bit paths of length 1..depth-1 that two or more of these keys begin
\* with.
SharedPrefixes ==
    LET owned == OwnedKeys
    IN {q \in {SubSeq(k, 1, L) : k \in owned, L \in 1..(depth - 1)} :
           Cardinality({k \in owned : IsPrefix(q, k)}) >= 2}
\* The shortest beginning of key k that is not in the set shared.
OwnPrefix(k, shared) ==
    SubSeq(k, 1,
           1 + Cardinality({L \in 1..(depth - 1) :
                               SubSeq(k, 1, L) \in shared}))
\* The bit paths of the nodes reached from the root.
NodePaths == {x.path : x \in NodesFrom(0, <<>>)}

\* C14: canonical shape.  While every insert so far has used a key that no
\* stored payload had, the trie at rest has a node other than the root for
\* a bit path exactly when two or more stored keys begin with that path,
\* it has 1 + the number of such paths nodes, and every stored payload sits
\* in the slot of the shortest beginning of its key that no other stored
\* key has; the tree is thus a function of the stored keys and payloads,
\* the same for every order of the inserts.
C14_CanonicalShape ==
    (pc \in {"idle", "done"} /\ distinct) =>
        LET shared == SharedPrefixes
        IN /\ NodePaths = {<<>>} \cup shared
           /\ Len(internals) = 1 + Cardinality(shared)
           /\ Leaves = {[p |-> owner[k][1], path |-> OwnPrefix(k, shared)] :
                           k \in OwnedKeys}

\* Three payloads with three keys are stored, two paths are shared.
C14_Witness ==
    /\ pc = "done"
    /\ op = "insert"
    /\ distinct
    /\ Cardinality(OwnedKeys) = 3
    /\ Cardinality(SharedPrefixes) = 2
    /\ Len(internals) = 3

\* Key a comes before key b in lexicographic order, false before true.
LexLess(a, b) ==
    \E j \in 1..depth :
        /\ ~a[j]
        /\ b[j]
        /\ \A h \in 1..(j - 1) : a[h] = b[h]

\* C15: enumeration order.  A finished items() has yielded the stored
\* payloads, each once, in strictly ascending lexicographic order of the
\* keys they were inserted with (false before true); the sequence is thus
\* the one ascending arrangement of what is stored, whatever the order of
\* the inserts was.
C15_KeyOrder ==
    Exhausted(iter) =>
        /\ Range(iter.yielded) = Resident
        /\ \A a \in 1..Len(iter.yielded) : \A b \in 1..Len(iter.yielded) :
              a < b => LexLess(keyOf(iter.yielded[a]), keyOf(iter.yielded[b]))

\* A finished items() over three payloads in two or more nodes whose key
\* order is not the order of the payload values.
C15_Witness ==
    /\ Exhausted(iter)
    /\ Len(iter.yielded) = 3
    /\ Len(internals) >= 2
    /\ iter.yielded[1] > iter.yielded[3]

\* The frame stack and the payloads yielded after n pulls of a fresh
\* items() on the current trie.
RECURSIVE ItemsAfter(_)
ItemsAfter(n) ==
    IF n = 0 THEN [indices |-> IterNew, yielded |-> <<>>]
    ELSE LET s == ItemsAfter(n - 1)
             r == IterNext(s.indices)
         IN [indices |-> r.indices,
             yielded |-> IF r.value = None THEN s.yielded
                         ELSE Append(s.yielded, r.value[1])]
\* The filter heuristic whose predicate accepts every choice.
FilterAll == FilterHeuristic(Closure(<<AcceptAll>>))
\* The frames of explore() as items() frames: node and cursor position.
AsItemsFrames(indices) ==
    [f \in 1..Len(indices) |-> Frame(indices[f].node, indices[f].iter.pos)]

\* C16: guided exploration refines enumeration.  After any number of pulls
\* explore(FilterHeuristic(f)) with f accepting every choice has yielded
\* the payloads items() yields in as many pulls, in the same order, and its
\* frame stack names the same nodes at the same cursor positions as the
\* frame stack of items(); when it is finished it has yielded the whole
\* sequence of items().
C16_ExploreRefinesItems ==
    (xiter # NoIter /\ xiter.heuristic = FilterAll) =>
        /\ xiter.yielded = ItemsAfter(xiter.pulls).yielded
        /\ AsItemsFrames(xiter.indices) = ItemsAfter(xiter.pulls).indices
        /\ Exhausted(xiter) => xiter.yielded = ItemsAll

\* explore with the accept-all filter has been pulled twice or more and
\* stands below the root with a payload just yielded.
C16_Witness ==
    /\ xiter # NoIter
    /\ xiter.heuristic = FilterAll
    /\ xiter.pulls >= 2
    /\ xiter.value # None
    /\ Len(xiter.indices) >= 2

\* A traversal in progress: at most depth frames; every pull so far but a
\* last one that returned None has yielded a payload out of a leaf slot, no
\* slot twice.
TraversalBounded(it) ==
    it # NoIter =>
        /\ Len(it.indices) <= depth
        /\ Range(it.yielded) \subseteq {l.p : l \in Leaves}
        /\ Cardinality(Range(it.yielded)) = Len(it.yielded)
        /\ it.pulls = Len(it.yielded) + (IF Exhausted(it) THEN 1 ELSE 0)
        /\ it.pulls <= Cardinality(Leaves) + 1
        /\ it.value # None => it.value[1] = it.yielded[Len(it.yielded)]

\* C17: iterator termination.  A traversal by items() or by explore() with
\* a filter or a search heuristic never holds more than depth frames, each
\* pull that returns a payload returns one of a leaf slot not visited
\* before, so that None is returned after at most (number of leaf slots)
\* + 1 pulls, and once None has been returned every later pull returns None
\* and leaves the iterator as it is; items() yields on each pull the next
\* payload of its whole sequence.
C17_Termination ==
    /\ [](TraversalBounded(iter) /\ TraversalBounded(xiter))
    /\ [](iter # NoIter => IsPrefix(iter.yielded, ItemsAll))
    /\ [][/\ (Exhausted(iter) /\ iter' # NoIter) => iter' = iter
          /\ (Exhausted(xiter) /\ xiter' # NoIter) => xiter' = xiter
          /\ (iter # NoIter /\ iter' # NoIter) =>
                /\ IsPrefix(iter.yielded, iter'.yielded)
                /\ Len(iter'.yielded) <= Len(iter.yielded) + 1
          /\ (xiter # NoIter /\ xiter' # NoIter) =>
                /\ IsPrefix(xiter.yielded, xiter'.yielded)
                /\ Len(xiter'.yielded) <= Len(xiter.yielded) + 1]_vars

\* A traversal by explore() with a search heuristic of a trie of depth 3
\* with a node at level 2 has returned None on its fourth pull.
C17_Witness ==
    /\ Exhausted(xiter)
    /\ xiter.heuristic.kind = "search"
    /\ depth = 3
    /\ Len(internals) >= 3
    /\ xiter.pulls = 4

\* The level of the node of node list nodes in which the path of key k
\* ends in a leaf, -1 if it ends in an empty slot.
RECURSIVE LevelIn(_, _, _, _)
LevelIn(nodes, n, lvl, k) ==
    IF lvl >= depth THEN -1
    ELSE LET m == nodes[n + 1][Position(KeyBit(k, lvl))]
         IN IF m = 0 THEN -1
            ELSE IF HasHigh(m) THEN lvl
            ELSE LevelIn(nodes, m, lvl + 1, k)
\* The node reached from the root by the given choices.
NodeOn(path) == (CHOOSE x \in NodesFrom(0, <<>>) : x.path = path).node
\* The number of slots of node n that are not empty.
Filled(n) == Cardinality({pos \in 1..2 : NodeAt(n)[pos] # 0})

\* C18: cost of a duplicate key.  No insert appends more than depth - 1
\* nodes.  An insert that returns a replaced payload, i.e. one with the key
\* of a payload that was stored as a leaf in a node at level lv when insert
\* was called, has appended exactly depth - 1 - lv nodes; these are the
\* nodes on the path of the key at levels lv + 1 .. depth - 1, each of them
\* has one slot in use, and the new payload sits at the end of the path.
C18_DuplicateKeyCost ==
    /\ atCall # NoCall => Len(internals) <= Len(atCall) + depth - 1
    /\ (pc = "done" /\ op = "insert" /\ ret # None) =>
          LET lv == LevelIn(atCall, 0, 0, key)
          IN /\ lv >= 0
             /\ Len(internals) = Len(atCall) + depth - 1 - lv
             /\ LeafPathOf(item) = key
             /\ \A L \in (lv + 1)..(depth - 1) :
                   /\ SubSeq(key, 1, L) \in NodePaths
                   /\ NodeOn(SubSeq(key, 1, L)) >= Len(atCall)
                   /\ Filled(NodeOn(SubSeq(key, 1, L))) = 1

\* A payload with the key of a leaf of the root has been inserted in a trie
\* of depth 3: two nodes were appended.
C18_Witness ==
    /\ pc = "done"
    /\ op = "insert"
    /\ ret # None
    /\ depth = 3
    /\ Len(internals) = Len(atCall) + 2

\* C19 as claimed: the append fails when the node list would exceed
\* HIGH - 1 nodes, so the list never holds more than HIGH - 1 nodes.
C19_FailsAboveHighMinusOne == Len(internals) <= HIGH - 1

\* C19: node-list overflow.  The node list holds at most HIGH nodes, so no
\* node index has the high bit set.  A split pushes its node exactly when
\* the list holds fewer than HIGH nodes and aborts exactly when it holds
\* HIGH nodes; the aborting step changes neither the list nor any slot, so
\* after it every payload stored before the failing insert is still in its
\* leaf slot and still found by get with its key.
C19_Overflow ==
    /\ [](/\ Len(internals) <= HIGH
          /\ ~HasHigh(Len(internals) - 1)
          /\ \A s \in RefSlots : ~HasHigh(NodeAt(s[1])[s[2]]))
    /\ [][/\ (pc = "loop" /\ pc' = "link") => Len(internals) < HIGH
          /\ (pc = "loop" /\ pc' = "aborted") =>
                /\ Len(internals) = HIGH
                /\ HasHigh(NodeAt(index)[Position(KeyBit(key, i))])
                /\ internals' = internals
                /\ owner' = owner]_vars
    /\ []((pc = "aborted" /\ ~HasHigh(item)) =>
             /\ Len(internals) = HIGH
             /\ LeafBag = ResidentBag
             /\ \A k \in OwnedKeys : get(k) = owner[k])

\* An insert has aborted on a full node list with two or more payloads
\* stored.
C19_Witness ==
    /\ pc = "aborted"
    /\ ~HasHigh(item)
    /\ Len(internals) = HIGH
    /\ Cardinality(Resident) >= 2

====
